---- MODULE Spec2Model ----
(***************************************************************************)
(* StorageGatewayManager (AWS_SG_MGR.py): listing gateways through a       *)
(* paginator, describing each gateway, listing and batch-describing the    *)
(* file shares of the shareable gateways, and writing the JSON report.     *)
(*                                                                         *)
(* The remote service is the environment: every remote call either         *)
(* returns a response dict or raises ClientError, chosen with \E.  Each    *)
(* call and its outcome is appended to the history variable calls.         *)
(* Python dicts are functions over string keys; d.get(k, default) is Get.  *)
(* Strings whose characters the code inspects (user names) are sequences   *)
(* of one-character strings.                                               *)
(***************************************************************************)
EXTENDS Integers, Sequences, FiniteSets, TLC

VARIABLES
    entry,          \* the method the caller invoked
    pc,             \* position of the control flow
    calls,          \* history: the remote calls issued so far, with outcome
    log,            \* the records handed to logging
    gateways,       \* list_all_gateways / get_detailed_status: gateways
    gi,             \* get_detailed_status: position of `for gw in gateways`
    detailed_list,  \* get_detailed_status: detailed_list (export: gateways)
    ei,             \* export_shares_to_json: position of `for gw in gateways`
    shares_info,    \* export_shares_to_json: shares_info
    nfs_arns,       \* export_shares_to_json: nfs_arns
    smb_arns,       \* export_shares_to_json: smb_arns
    full_details,   \* export_shares_to_json: full_details
    share_report,   \* export_shares_to_json: share_report
    share_arns,     \* _get_share_details: share_arns
    share_type,     \* _get_share_details: share_type
    i,              \* _get_share_details: i
    details,        \* _get_share_details: details
    file,           \* the output file: <<>> until written, then <<content>>
    raised,         \* the exception that reached the caller, or "none"
    ret             \* the value returned to the caller

vars == <<entry, pc, calls, log, gateways, gi, detailed_list, ei, shares_info,
          nfs_arns, smb_arns, full_details, share_report, share_arns,
          share_type, i, details, file, raised, ret>>

(***************************************************************************)
(* The batch size of the program, and the bounds of the model: pages a     *)
(* paginator yields, gateways a page holds, gateways listed (by the export *)
(* and by the other methods), shares listed for one gateway, identifiers   *)
(* handed to _get_share_details, and remote calls issued in one run (a run *)
(* that needs more is followed up to its MaxCalls-th call).                *)
(***************************************************************************)
BatchSize == 10
MaxPages == 3
MaxPageLen == 2
MaxGateways == 3
MaxExportGateways == 2
MaxShares == 2
MaxShareArns == 21
MaxCalls == 7

(***************************************************************************)
(* Python values.                                                          *)
(***************************************************************************)
EmptyDict == <<>>
None == "None"
Get(d, k, default) == IF k \in DOMAIN d THEN d[k] ELSE default
Min(a, b) == IF a < b THEN a ELSE b

\* list.extend(items) with a wrong result: the list is replaced.
ExtendReplaces(list, items) == items

\* list.extend(items)
Extend(list, items) == list \o items

\* str.startswith for a one-character prefix.
StartsWith(u, c) == Len(u) >= 1 /\ u[1] = c

\* A slice that loses its last element.
SliceShort(s, from, to) == SubSeq(s, from + 1, Min(to, Len(s)) - 1)

\* share_arns[i:i+10] with i counted from 0.
Slice(s, from, to) == SubSeq(s, from + 1, Min(to, Len(s)))


(***************************************************************************)
(* The responses the remote service can give.  Identifiers are numbered in *)
(* the order the listing returns them.                                     *)
(***************************************************************************)
\* The test of line 70 with the cached volume gateways let through.
ShareableTypesWide == {"FILE_S3", "FILE_FSX_SMB", "CACHED"}

\* The gateway types whose shares are listed.
ShareableTypes == {"FILE_S3", "FILE_FSX_SMB"}

Entries == {"list_all_gateways", "get_detailed_status", "_get_share_details",
            "export_shares_to_json"}

GatewayIds == <<"sgw-1", "sgw-2", "sgw-3", "sgw-4", "sgw-5", "sgw-6">>

\* How many gateways the listing may return in total.
GatewayCap == IF entry = "export_shares_to_json" THEN MaxExportGateways
              ELSE MaxGateways

\* A page of list_gateways with n gateways, numbered after the `have` listed.
GatewayPage(have, n) ==
    [Gateways |-> [k \in 1..n |-> [GatewayARN |-> have + k]]]

\* The pages list_gateways can return next; a page may lack the key.
GatewayPages(have) ==
    {EmptyDict} \cup
    {GatewayPage(have, n) : n \in 0..Min(MaxPageLen, GatewayCap - have)}

\* The responses of describe_gateway_information for one gateway.
DescribeInfos(arn) ==
    { [GatewayName |-> "gw-A", GatewayId |-> GatewayIds[arn],
       GatewayState |-> "RUNNING", GatewayType |-> "FILE_S3"],
      [GatewayName |-> "gw-B", GatewayId |-> GatewayIds[arn],
       GatewayState |-> "RUNNING", GatewayType |-> "FILE_FSX_SMB"],
      [GatewayName |-> "gw-A", GatewayId |-> GatewayIds[arn],
       GatewayState |-> "SHUTDOWN", GatewayType |-> "CACHED"],
      EmptyDict }

\* The pages list_file_shares can return next: at most one share a page.
SharePages(have) ==
    {EmptyDict} \cup
    IF have < MaxShares
    THEN {[FileShareInfoList |->
              <<[FileShareARN |-> have + 1, FileShareType |-> t]>>] :
          t \in {"NFS", "SMB"}}
    ELSE {}

alice == <<"a", "l", "i", "c", "e">>
engineering == <<"@", "e", "n", "g">>
bob == <<"b", "o", "b">>
ops == <<"@", "o", "p", "s">>
mail == <<"m", "@", "x">>
empty == <<>>

\* One record of NFSFileShareInfoList.
NfsInfo(arn) ==
    [FileShareARN |-> arn, FileShareId |-> arn, Path |-> "/export",
     LocationARN |-> "bucket", FileShareStatus |-> "AVAILABLE",
     ClientList |-> <<"10.0.0.0/8">>]

\* The shapes of SMBFileShareInfoList records the service returns.
SmbKinds == {"bare", "full", "groups"}

\* One record of SMBFileShareInfoList.
SmbInfo(arn, kind) ==
    CASE kind = "bare" -> [FileShareARN |-> arn, FileShareId |-> arn]
      [] kind = "full" ->
            [FileShareARN |-> arn, FileShareId |-> arn, Path |-> "/smb",
             LocationARN |-> "bucket", FileShareStatus |-> "AVAILABLE",
             ValidUserList |-> <<alice, engineering, bob>>,
             AdminUserList |-> <<alice>>, SMBACLEnabled |-> TRUE]
      [] OTHER ->
            [FileShareARN |-> arn, FileShareId |-> arn, Path |-> "/smb",
             ValidUserList |-> <<ops, mail, empty, ops>>]

\* The key of the describe response that holds the records.
InfoListKey(type) ==
    IF type = "NFS" THEN "NFSFileShareInfoList" ELSE "SMBFileShareInfoList"

\* The responses of describe_nfs_file_shares / describe_smb_file_shares for
\* one batch: the key may be missing; the records follow the batch's order.
BatchResponses(type, batch) ==
    {EmptyDict} \cup
    IF type = "NFS"
    THEN {[NFSFileShareInfoList |-> [k \in 1..Len(batch) |-> NfsInfo(batch[k])]]}
    ELSE {[SMBFileShareInfoList |->
              [k \in 1..Len(batch) |-> SmbInfo(batch[k], kind)]] :
          kind \in SmbKinds}

\* One remote call of the history.
Call(op, gw, arg, ok, resp) ==
    [op |-> op, gw |-> gw, arg |-> arg, ok |-> ok, resp |-> resp]

\* The calls of one operation, in the order issued.
CallsOf(op) == SelectSeq(calls, LAMBDA c : c.op = op)

\* The calls of one operation issued for the gateway at position g.
CallsFor(op, g) == SelectSeq(calls, LAMBDA c : c.op = op /\ c.gw = g)

Logged(level, msg) == [level |-> level, msg |-> msg]

Init ==
    /\ entry \in Entries
    /\ pc = IF entry = "_get_share_details" THEN "batch" ELSE "list_gateways"
    /\ calls = <<>>
    /\ log = <<>>
    /\ gateways = <<>>
    /\ gi = 1
    /\ detailed_list = <<>>
    /\ ei = 1
    /\ shares_info = <<>>
    /\ nfs_arns = <<>>
    /\ smb_arns = <<>>
    /\ full_details = <<>>
    /\ share_report = EmptyDict
    /\ IF entry = "_get_share_details"
       THEN /\ \E n \in 0..MaxShareArns : share_arns = [k \in 1..n |-> k]
            /\ share_type \in {"NFS", "SMB"}
       ELSE /\ share_arns = <<>>
            /\ share_type = "NFS"
    /\ i = 0
    /\ details = <<>>
    /\ file = <<>>
    /\ raised = "none"
    /\ ret = <<>>

(***************************************************************************)
(* list_all_gateways                                                       *)
(***************************************************************************)
\* `return v` of list_all_gateways: to the caller, or on to line 29.
ListGatewaysReturns(v) ==
    IF entry = "list_all_gateways"
    THEN /\ pc' = "done"
         /\ ret' = v
         /\ gateways' = gateways
    ELSE /\ pc' = "describe"
         /\ gateways' = v
         /\ ret' = ret

\* The paginator yields one more page: gateways.extend(page.get(...)).
ListGatewaysPage ==
    /\ pc = "list_gateways"
    /\ Len(calls) < MaxCalls
    /\ Len(calls) < MaxPages
    /\ \E page \in GatewayPages(Len(gateways)) :
          /\ gateways' = Extend(gateways, Get(page, "Gateways", <<>>))
          /\ calls' = Append(calls, Call("list_gateways", 0, <<>>, TRUE, page))
    /\ UNCHANGED <<entry, pc, log, gi, detailed_list, ei, shares_info, nfs_arns,
                   smb_arns, full_details, share_report, share_arns,
                   share_type, i, details, file, raised, ret>>

\* ListGatewaysError with a wrong result: the pages fetched so far are
\* returned.
ListGatewaysErrorKeepsPages ==
    /\ pc = "list_gateways"
    /\ Len(calls) < MaxCalls
    /\ Len(calls) < MaxPages
    /\ calls' = Append(calls, Call("list_gateways", 0, <<>>, FALSE, EmptyDict))
    /\ log' = Append(log, Logged("ERROR", "Failed to list gateways"))
    /\ ListGatewaysReturns(gateways)
    /\ UNCHANGED <<entry, gi, detailed_list, ei, shares_info, nfs_arns,
                   smb_arns, full_details, share_report, share_arns,
                   share_type, i, details, file, raised>>

\* Fetching a page raises ClientError: log it and return [].
ListGatewaysError ==
    /\ pc = "list_gateways"
    /\ Len(calls) < MaxCalls
    /\ Len(calls) < MaxPages
    /\ calls' = Append(calls, Call("list_gateways", 0, <<>>, FALSE, EmptyDict))
    /\ log' = Append(log, Logged("ERROR", "Failed to list gateways"))
    /\ ListGatewaysReturns(<<>>)
    /\ UNCHANGED <<entry, gi, detailed_list, ei, shares_info, nfs_arns,
                   smb_arns, full_details, share_report, share_arns,
                   share_type, i, details, file, raised>>

\* The paginator is exhausted: return gateways.
ListGatewaysDone ==
    /\ pc = "list_gateways"
    /\ Len(calls) >= 1
    /\ ListGatewaysReturns(gateways)
    /\ UNCHANGED <<entry, calls, log, gi, detailed_list, ei, shares_info,
                   nfs_arns, smb_arns, full_details, share_report, share_arns,
                   share_type, i, details, file, raised>>

(***************************************************************************)
(* get_detailed_status                                                     *)
(***************************************************************************)
\* The summary appended for a described gateway.
Summary(info, gw) ==
    [Name |-> Get(info, "GatewayName", "N/A"),
     ID |-> Get(info, "GatewayId", "N/A"),
     Status |-> Get(info, "GatewayState", "UNKNOWN"),
     Type |-> Get(info, "GatewayType", "N/A"),
     ARN |-> gw.GatewayARN]

\* describe_gateway_information succeeds for the next gateway.
DescribeGateway ==
    /\ pc = "describe"
    /\ Len(calls) < MaxCalls
    /\ gi <= Len(gateways)
    /\ LET gw == gateways[gi]
       IN  \E info \in DescribeInfos(gw.GatewayARN) :
              /\ calls' = Append(calls, Call("describe_gateway_information", gi,
                                             gw.GatewayARN, TRUE, info))
              /\ detailed_list' = Append(detailed_list, Summary(info, gw))
    /\ gi' = gi + 1
    /\ UNCHANGED <<entry, pc, log, gateways, ei, shares_info, nfs_arns,
                   smb_arns, full_details, share_report, share_arns,
                   share_type, i, details, file, raised, ret>>

\* DescribeGatewayError with the loop left at the first failure.
DescribeGatewayErrorStops ==
    /\ pc = "describe"
    /\ Len(calls) < MaxCalls
    /\ gi <= Len(gateways)
    /\ calls' = Append(calls, Call("describe_gateway_information", gi,
                                   gateways[gi].GatewayARN, FALSE, EmptyDict))
    /\ log' = Append(log, Logged("WARNING", "Could not describe gateway"))
    /\ gi' = Len(gateways) + 1
    /\ UNCHANGED <<entry, pc, gateways, detailed_list, ei, shares_info,
                   nfs_arns, smb_arns, full_details, share_report, share_arns,
                   share_type, i, details, file, raised, ret>>

\* describe_gateway_information raises ClientError: warn and go on.
DescribeGatewayError ==
    /\ pc = "describe"
    /\ Len(calls) < MaxCalls
    /\ gi <= Len(gateways)
    /\ calls' = Append(calls, Call("describe_gateway_information", gi,
                                   gateways[gi].GatewayARN, FALSE, EmptyDict))
    /\ log' = Append(log, Logged("WARNING", "Could not describe gateway"))
    /\ gi' = gi + 1
    /\ UNCHANGED <<entry, pc, gateways, detailed_list, ei, shares_info,
                   nfs_arns, smb_arns, full_details, share_report, share_arns,
                   share_type, i, details, file, raised, ret>>

\* `return detailed_list`: to the caller, or on to line 67.
DetailedStatusDone ==
    /\ pc = "describe"
    /\ gi > Len(gateways)
    /\ IF entry = "get_detailed_status"
       THEN /\ pc' = "done"
            /\ ret' = detailed_list
       ELSE /\ pc' = "gateway"
            /\ ret' = ret
    /\ UNCHANGED <<entry, calls, log, gateways, gi, detailed_list, ei,
                   shares_info, nfs_arns, smb_arns, full_details, share_report,
                   share_arns, share_type, i, details, file, raised>>

(***************************************************************************)
(* _get_share_details                                                      *)
(***************************************************************************)
\* The position of the gateway a describe call is issued for (0: none).
CurrentGateway == IF entry = "export_shares_to_json" THEN ei ELSE 0

DescribeOp(type) ==
    IF type = "NFS" THEN "describe_nfs_file_shares"
    ELSE "describe_smb_file_shares"

\* The describe call of the batch at i succeeds: details.extend(...).
DescribeBatch ==
    /\ pc = "batch"
    /\ Len(calls) < MaxCalls
    /\ i < Len(share_arns)
    /\ LET batch == Slice(share_arns, i, i + BatchSize)
       IN  \E response \in BatchResponses(share_type, batch) :
              /\ calls' = Append(calls, Call(DescribeOp(share_type),
                                             CurrentGateway, batch, TRUE,
                                             response))
              /\ details' = Extend(details, Get(response,
                                                InfoListKey(share_type), <<>>))
    /\ i' = i + BatchSize
    /\ UNCHANGED <<entry, pc, log, gateways, gi, detailed_list, ei,
                   shares_info, nfs_arns, smb_arns, full_details, share_report,
                   share_arns, share_type, file, raised, ret>>

\* DescribeBatchError with the loop left at the first failure.
DescribeBatchErrorStops ==
    /\ pc = "batch"
    /\ Len(calls) < MaxCalls
    /\ i < Len(share_arns)
    /\ calls' = Append(calls, Call(DescribeOp(share_type), CurrentGateway,
                                   Slice(share_arns, i, i + BatchSize), FALSE,
                                   EmptyDict))
    /\ log' = Append(log, Logged("ERROR", "Failed to describe shares"))
    /\ i' = Len(share_arns)
    /\ UNCHANGED <<entry, pc, gateways, gi, detailed_list, ei, shares_info,
                   nfs_arns, smb_arns, full_details, share_report, share_arns,
                   share_type, details, file, raised, ret>>

\* The describe call of the batch at i raises ClientError: log and go on.
DescribeBatchError ==
    /\ pc = "batch"
    /\ Len(calls) < MaxCalls
    /\ i < Len(share_arns)
    /\ calls' = Append(calls, Call(DescribeOp(share_type), CurrentGateway,
                                   Slice(share_arns, i, i + BatchSize), FALSE,
                                   EmptyDict))
    /\ log' = Append(log, Logged("ERROR", "Failed to describe shares"))
    /\ i' = i + BatchSize
    /\ UNCHANGED <<entry, pc, gateways, gi, detailed_list, ei, shares_info,
                   nfs_arns, smb_arns, full_details, share_report, share_arns,
                   share_type, details, file, raised, ret>>

(***************************************************************************)
(* export_shares_to_json                                                   *)
(***************************************************************************)
RECURSIVE ArnsOfType(_, _)
\* [s['FileShareARN'] for s in shares_info if s['FileShareType'] == type]
ArnsOfType(infos, type) ==
    IF infos = <<>> THEN <<>>
    ELSE LET rest == ArnsOfType(Tail(infos), type)
         IN  IF Head(infos).FileShareType = type
             THEN <<Head(infos).FileShareARN>> \o rest
             ELSE rest

RECURSIVE AllowedGroupsContains(_)
\* The group filter with `'@' in u` for u.startswith('@').
AllowedGroupsContains(users) ==
    IF users = <<>> THEN <<>>
    ELSE LET rest == AllowedGroupsContains(Tail(users))
         IN  IF \E k \in 1..Len(Head(users)) : Head(users)[k] = "@"
             THEN <<Head(users)>> \o rest
             ELSE rest

RECURSIVE AllowedGroups(_)
\* [u for u in users if u.startswith('@')]
AllowedGroups(users) ==
    IF users = <<>> THEN <<>>
    ELSE LET rest == AllowedGroups(Tail(users))
         IN  IF StartsWith(Head(users), "@") THEN <<Head(users)>> \o rest
             ELSE rest

\* The record appended to full_details for an NFS share.
NfsRecord(share) ==
    [ShareID |-> Get(share, "FileShareId", None),
     Type |-> "NFS",
     Path |-> Get(share, "Path", None),
     Bucket |-> Get(share, "LocationARN", None),
     AllowedClients |-> Get(share, "ClientList", <<>>),
     Status |-> Get(share, "FileShareStatus", None)]

\* The record appended to full_details for an SMB share.
SmbRecord(share) ==
    [ShareID |-> Get(share, "FileShareId", None),
     Type |-> "SMB",
     Path |-> Get(share, "Path", None),
     Bucket |-> Get(share, "LocationARN", None),
     AD_AllowedUsers |-> Get(share, "ValidUserList", <<>>),
     AD_AllowedGroups |-> AllowedGroups(Get(share, "ValidUserList", <<>>)),
     AD_AdminUsers |-> Get(share, "AdminUserList", <<>>),
     Status |-> Get(share, "FileShareStatus", None),
     SMB_ACL_Enabled |-> Get(share, "SMBACLEnabled", FALSE)]

\* The records the loops at lines 86 and 96 append for the returned shares.
ShareRecords(type, shares) ==
    [k \in 1..Len(shares) |->
        IF type = "NFS" THEN NfsRecord(shares[k]) ELSE SmbRecord(shares[k])]

\* d.setdefault(k, v) for d[k] = v: the first value of a key stays.
SetItemKeepsFirst(d, k, v) ==
    [n \in DOMAIN d \cup {k} |-> IF n \in DOMAIN d THEN d[n] ELSE v]

\* d[k] = v on a dict.
SetItem(d, k, v) == [n \in DOMAIN d \cup {k} |-> IF n = k THEN v ELSE d[n]]

\* The entry stored for a gateway at line 109.
ReportEntry(gw, shares) == [GatewayID |-> gw.ID, Shares |-> shares]

\* The head of `for gw in gateways` with the test of line 70.
SelectGateway ==
    /\ pc = "gateway"
    /\ ei <= Len(detailed_list)
    /\ IF detailed_list[ei].Type \in ShareableTypes
       THEN /\ log' = Append(log, Logged("INFO", "Processing shares"))
            /\ pc' = "list_shares"
            /\ shares_info' = <<>>
            /\ ei' = ei
       ELSE /\ ei' = ei + 1
            /\ UNCHANGED <<log, pc, shares_info>>
    /\ UNCHANGED <<entry, calls, gateways, gi, detailed_list, nfs_arns,
                   smb_arns, full_details, share_report, share_arns,
                   share_type, i, details, file, raised, ret>>

\* The list_file_shares paginator yields one more page.
ListSharesPage ==
    /\ pc = "list_shares"
    /\ Len(calls) < MaxCalls
    /\ Len(CallsFor("list_file_shares", ei)) < MaxPages
    /\ \E page \in SharePages(Len(shares_info)) :
          /\ shares_info' = Extend(shares_info,
                                   Get(page, "FileShareInfoList", <<>>))
          /\ calls' = Append(calls, Call("list_file_shares", ei,
                                         detailed_list[ei].ARN, TRUE, page))
    /\ UNCHANGED <<entry, pc, log, gateways, gi, detailed_list, ei, nfs_arns,
                   smb_arns, full_details, share_report, share_arns,
                   share_type, i, details, file, raised, ret>>

\* Fetching a page of shares raises ClientError: caught at line 114.
ListSharesError ==
    /\ pc = "list_shares"
    /\ Len(calls) < MaxCalls
    /\ Len(CallsFor("list_file_shares", ei)) < MaxPages
    /\ calls' = Append(calls, Call("list_file_shares", ei,
                                   detailed_list[ei].ARN, FALSE, EmptyDict))
    /\ log' = Append(log, Logged("ERROR", "Error gathering share data"))
    /\ ei' = ei + 1
    /\ pc' = "gateway"
    /\ UNCHANGED <<entry, gateways, gi, detailed_list, shares_info, nfs_arns,
                   smb_arns, full_details, share_report, share_arns,
                   share_type, i, details, file, raised, ret>>

\* The paginator is exhausted: lines 80 to 86, up to the NFS call.
ListSharesDone ==
    /\ pc = "list_shares"
    /\ Len(CallsFor("list_file_shares", ei)) >= 1
    /\ nfs_arns' = ArnsOfType(shares_info, "NFS")
    /\ smb_arns' = ArnsOfType(shares_info, "SMB")
    /\ full_details' = <<>>
    /\ share_arns' = nfs_arns'
    /\ share_type' = "NFS"
    /\ i' = 0
    /\ details' = <<>>
    /\ pc' = "batch"
    /\ UNCHANGED <<entry, calls, log, gateways, gi, detailed_list, ei,
                   shares_info, share_report, file, raised, ret>>

\* `return details`: to the caller, or into the loop of line 86 (then the SMB
\* call) or of line 96 (then the entry of line 109 and the next gateway).
ShareDetailsDone ==
    /\ pc = "batch"
    /\ i >= Len(share_arns)
    /\ IF entry = "_get_share_details"
       THEN /\ pc' = "done"
            /\ ret' = details
            /\ UNCHANGED <<ei, full_details, share_report, share_arns,
                           share_type, i, details>>
       ELSE IF share_type = "NFS"
       THEN /\ full_details' = full_details \o ShareRecords("NFS", details)
            /\ share_arns' = smb_arns
            /\ share_type' = "SMB"
            /\ i' = 0
            /\ details' = <<>>
            /\ UNCHANGED <<pc, ret, ei, share_report>>
       ELSE /\ full_details' = full_details \o ShareRecords("SMB", details)
            /\ share_report' = SetItem(share_report, detailed_list[ei].Name,
                                  ReportEntry(detailed_list[ei], full_details'))
            /\ ei' = ei + 1
            /\ pc' = "gateway"
            /\ UNCHANGED <<ret, share_arns, share_type, i, details>>
    /\ UNCHANGED <<entry, calls, log, gateways, gi, detailed_list,
                   shares_info, nfs_arns, smb_arns, file, raised>>

\* WriteReport with the write skipped for an empty report.
WriteReportSkipsEmpty ==
    /\ pc = "gateway"
    /\ ei > Len(detailed_list)
    /\ file' = IF DOMAIN share_report = {} THEN file ELSE <<share_report>>
    /\ log' = Append(log, Logged("INFO", "Detailed share report saved"))
    /\ pc' = "done"
    /\ UNCHANGED <<entry, calls, gateways, gi, detailed_list, ei, shares_info,
                   nfs_arns, smb_arns, full_details, share_report, share_arns,
                   share_type, i, details, raised, ret>>

\* open(filename, 'w') succeeds: json.dump and the closing log record.  The
\* file holds one JSON document, kept as the mapping it denotes (the order of
\* the keys and the indentation are not modelled).
WriteReport ==
    /\ pc = "gateway"
    /\ ei > Len(detailed_list)
    /\ file' = <<share_report>>
    /\ log' = Append(log, Logged("INFO", "Detailed share report saved"))
    /\ pc' = "done"
    /\ UNCHANGED <<entry, calls, gateways, gi, detailed_list, ei, shares_info,
                   nfs_arns, smb_arns, full_details, share_report, share_arns,
                   share_type, i, details, raised, ret>>

\* open(filename, 'w') raises OSError: nothing catches it.
WriteReportError ==
    /\ pc = "gateway"
    /\ ei > Len(detailed_list)
    /\ raised' = "OSError"
    /\ pc' = "done"
    /\ UNCHANGED <<entry, calls, log, gateways, gi, detailed_list, ei,
                   shares_info, nfs_arns, smb_arns, full_details, share_report,
                   share_arns, share_type, i, details, file, ret>>

(***************************************************************************)
(* Specifications: one per method the caller can invoke.                   *)
(***************************************************************************)
InitList == Init /\ entry = "list_all_gateways"
InitStatus == Init /\ entry = "get_detailed_status"
InitShares == Init /\ entry = "_get_share_details"
InitExport == Init /\ entry = "export_shares_to_json"

NextList == ListGatewaysPage \/ ListGatewaysError \/ ListGatewaysDone

NextStatus ==
    \/ NextList
    \/ DescribeGateway
    \/ DescribeGatewayError
    \/ DetailedStatusDone

NextShares == DescribeBatch \/ DescribeBatchError \/ ShareDetailsDone

Next ==
    \/ NextStatus
    \/ SelectGateway
    \/ ListSharesPage
    \/ ListSharesError
    \/ ListSharesDone
    \/ NextShares
    \/ WriteReport
    \/ WriteReportError

SpecList == InitList /\ [][NextList]_vars
SpecStatus == InitStatus /\ [][NextStatus]_vars
SpecShares == InitShares /\ [][NextShares]_vars
Spec == InitExport /\ [][Next]_vars

(***************************************************************************)
(* Properties.  They are stated over the history of remote calls, with     *)
(* their own reading of the responses.                                     *)
(***************************************************************************)
RECURSIVE Flatten(_)
Flatten(ss) == IF ss = <<>> THEN <<>> ELSE Head(ss) \o Flatten(Tail(ss))

\* The items a response holds under a key; none when the key is missing.
Items(resp, key) == IF key \in DOMAIN resp THEN resp[key] ELSE <<>>

AllOk(cs) == \A k \in 1..Len(cs) : cs[k].ok
SomeFailed(cs) == \E k \in 1..Len(cs) : ~cs[k].ok

\* C1: when no page fetch fails, list_all_gateways returns the concatenation
\* of the 'Gateways' items of all pages, in page order and in within-page
\* order, nothing duplicated or dropped; a page without the key adds nothing.
C1_ListConcatenatesPages ==
    (entry = "list_all_gateways" /\ pc = "done" /\ AllOk(calls)) =>
        /\ raised = "none"
        /\ ret = Flatten([k \in 1..Len(calls) |->
                             Items(calls[k].resp, "Gateways")])

\* Three pages, one of them without the key, the others with items.
C1_Witness ==
    /\ entry = "list_all_gateways" /\ pc = "done" /\ AllOk(calls)
    /\ Len(calls) = 3
    /\ calls[1].resp # EmptyDict /\ Len(calls[1].resp.Gateways) = 2
    /\ calls[2].resp = EmptyDict
    /\ calls[3].resp # EmptyDict /\ Len(calls[3].resp.Gateways) = 1
    /\ Len(ret) = 3

\* C6: when a page fetch fails, also after pages that were fetched, then
\* list_all_gateways returns the empty sequence and raises nothing.
C6_ListErrorReturnsEmpty ==
    (entry = "list_all_gateways" /\ pc = "done" /\ SomeFailed(calls)) =>
        /\ ret = <<>>
        /\ raised = "none"

\* The second fetch fails after a page with two gateways.
C6_Witness ==
    /\ entry = "list_all_gateways" /\ pc = "done"
    /\ Len(calls) = 2
    /\ calls[1].ok /\ Len(Items(calls[1].resp, "Gateways")) = 2
    /\ ~calls[2].ok
    /\ ret = <<>>

\* The field of a described gateway, as the summary reports it.
Field(resp, key, missing) == IF key \in DOMAIN resp THEN resp[key] ELSE missing

\* The describe calls that succeeded, in the order issued.
Described ==
    SelectSeq(calls, LAMBDA c : c.op = "describe_gateway_information" /\ c.ok)

\* C3: get_detailed_status issues one describe call per reference, in the
\* order of the references and also after a failed one, returns one summary
\* per successful call in that order, omits the failed ones and raises
\* nothing.
C3_StatusSkipsFailedGateways ==
    (entry = "get_detailed_status" /\ pc = "done") =>
        LET D == CallsOf("describe_gateway_information")
        IN  /\ raised = "none"
            /\ Len(D) = Len(gateways)
            /\ \A k \in 1..Len(D) : D[k].arg = gateways[k].GatewayARN
            /\ Len(ret) = Len(Described)
            /\ \A k \in 1..Len(ret) :
                  /\ ret[k].ARN = Described[k].arg
                  /\ ret[k].Name = Field(Described[k].resp, "GatewayName", "N/A")
                  /\ ret[k].ID = Field(Described[k].resp, "GatewayId", "N/A")
                  /\ ret[k].Type = Field(Described[k].resp, "GatewayType", "N/A")
                  /\ ret[k].Status =
                        Field(Described[k].resp, "GatewayState", "UNKNOWN")

\* Three references, the describe call of the first fails: two summaries.
C3_Witness ==
    /\ entry = "get_detailed_status" /\ pc = "done"
    /\ Len(gateways) = 3
    /\ LET D == CallsOf("describe_gateway_information")
       IN  Len(D) = 3 /\ ~D[1].ok /\ D[2].ok /\ D[3].ok
    /\ Len(ret) = 2
    /\ ret[1].ARN = 2 /\ ret[2].ARN = 3

\* The batch the k-th describe call has to carry, for n identifiers.
BatchOf(arns, k) ==
    [j \in 1..(IF 10 * k <= Len(arns) THEN 10 ELSE Len(arns) - 10 * (k - 1))
        |-> arns[10 * (k - 1) + j]]

\* C2: for N identifiers _get_share_details issues ceil(N/10) describe calls,
\* each with 1 to 10 identifiers, and the batches in call order concatenate
\* to the input list; none is issued for N = 0.
C2_BatchesPartitionInput ==
    (entry = "_get_share_details" /\ pc = "done") =>
        /\ Len(calls) = (Len(share_arns) + 9) \div 10
        /\ \A k \in 1..Len(calls) :
              Len(calls[k].arg) >= 1 /\ Len(calls[k].arg) <= 10
        /\ Flatten([k \in 1..Len(calls) |-> calls[k].arg]) = share_arns
        /\ (Len(share_arns) = 0 => calls = <<>>)

\* 21 identifiers: three calls, the last with one identifier.
C2_Witness ==
    /\ entry = "_get_share_details" /\ pc = "done"
    /\ Len(share_arns) = 21
    /\ Len(calls) = 3
    /\ Len(calls[3].arg) = 1

\* C4: a failed batch drops exactly its own records: the result is the
\* concatenation, in batch order, of the records of the batches that
\* succeeded; every batch is attempted exactly once whatever failed before
\* it, and nothing is raised.
C4_FailedBatchOmitted ==
    (entry = "_get_share_details" /\ pc = "done") =>
        /\ raised = "none"
        /\ Len(calls) = (Len(share_arns) + 9) \div 10
        /\ \A k \in 1..Len(calls) : calls[k].arg = BatchOf(share_arns, k)
        /\ ret = Flatten([k \in 1..Len(calls) |->
                  IF calls[k].ok
                  THEN Items(calls[k].resp,
                             IF share_type = "NFS" THEN "NFSFileShareInfoList"
                             ELSE "SMBFileShareInfoList")
                  ELSE <<>>])

\* 21 identifiers, the second batch fails: the records of the first and the
\* third batch are returned.
C4_Witness ==
    /\ entry = "_get_share_details" /\ pc = "done"
    /\ Len(calls) = 3
    /\ calls[1].ok /\ ~calls[2].ok /\ calls[3].ok
    /\ Len(ret) = 11
    /\ ret[10].FileShareARN = 10 /\ ret[11].FileShareARN = 21

\* A user-list entry that names a group: it starts with the marker '@'.
IsGroup(u) == u # <<>> /\ Head(u) = "@"

\* The SMB records of a list of share records.
SmbOnly(shares) == SelectSeq(shares, LAMBDA r : r.Type = "SMB")

\* C5: for every SMB record built by export_shares_to_json, AD_AllowedUsers
\* is the raw ValidUserList of its share unchanged and AD_AllowedGroups is
\* the order-preserving subsequence of the entries that start with '@'; both
\* are empty when the share has no ValidUserList.  Stated for the records
\* built from the shares the SMB call returned last (details), and for every
\* SMB record stored in the report.
C5_SmbUsersAndGroups ==
    /\ (share_type = "SMB" /\ pc # "batch") =>
          LET built == SmbOnly(full_details)
          IN  /\ Len(built) = Len(details)
              /\ \A k \in 1..Len(built) :
                    LET raw == Items(details[k], "ValidUserList")
                    IN  /\ built[k].AD_AllowedUsers = raw
                        /\ built[k].AD_AllowedGroups = SelectSeq(raw, IsGroup)
                        /\ "ValidUserList" \notin DOMAIN details[k] =>
                              /\ built[k].AD_AllowedUsers = <<>>
                              /\ built[k].AD_AllowedGroups = <<>>
    /\ \A n \in DOMAIN share_report :
          \A k \in 1..Len(share_report[n].Shares) :
              LET r == share_report[n].Shares[k]
              IN  r.Type = "SMB" =>
                     r.AD_AllowedGroups = SelectSeq(r.AD_AllowedUsers, IsGroup)

\* A stored SMB record built from ValidUserList = [alice, @eng, bob], and
\* one built from a share without ValidUserList.
C5_Witness ==
    /\ pc = "done"
    /\ \E n \in DOMAIN share_report :
          \E k \in 1..Len(share_report[n].Shares) :
              LET r == share_report[n].Shares[k]
              IN  /\ r.Type = "SMB"
                  /\ r.AD_AllowedUsers = <<alice, engineering, bob>>
                  /\ r.AD_AllowedGroups = <<engineering>>
    /\ \E n \in DOMAIN share_report :
          \E k \in 1..Len(share_report[n].Shares) :
              LET r == share_report[n].Shares[k]
              IN  /\ r.Type = "SMB"
                  /\ r.AD_AllowedUsers = <<>>
                  /\ r.AD_AllowedGroups = <<>>

\* The gateway at position j of the described gateways, read from the
\* describe response.
GwName(j) == Field(Described[j].resp, "GatewayName", "N/A")
GwId(j) == Field(Described[j].resp, "GatewayId", "N/A")
GwType(j) == Field(Described[j].resp, "GatewayType", "N/A")
IsShareable(j) == GwType(j) \in {"FILE_S3", "FILE_FSX_SMB"}

\* Gateway j keeps its entry: shareable, and no page of its shares failed.
Survives(j) == IsShareable(j) /\ AllOk(CallsFor("list_file_shares", j))

\* The shares the listing returned for gateway j, of one type.
ListedArns(j, type) ==
    LET cs == CallsFor("list_file_shares", j)
        all == Flatten([k \in 1..Len(cs) |->
                           Items(cs[k].resp, "FileShareInfoList")])
        of == SelectSeq(all, LAMBDA x : x.FileShareType = type)
    IN  [k \in 1..Len(of) |-> of[k].FileShareARN]

\* <<type, id>> of the records the successful batches of gateway j returned.
KeptShares(j, op, key, type) ==
    LET cs == CallsFor(op, j)
    IN  Flatten([k \in 1..Len(cs) |->
            IF cs[k].ok
            THEN [m \in 1..Len(Items(cs[k].resp, key)) |->
                     <<type, Items(cs[k].resp, key)[m].FileShareId>>]
            ELSE <<>>])

ExpectedShares(j) ==
    KeptShares(j, "describe_nfs_file_shares", "NFSFileShareInfoList", "NFS")
    \o KeptShares(j, "describe_smb_file_shares", "SMBFileShareInfoList", "SMB")

\* Every listed share of gateway j is in exactly one batch, failed or not.
BatchesCover(j) ==
    /\ LET cs == CallsFor("describe_nfs_file_shares", j)
       IN  Flatten([k \in 1..Len(cs) |-> cs[k].arg]) = ListedArns(j, "NFS")
    /\ LET cs == CallsFor("describe_smb_file_shares", j)
       IN  Flatten([k \in 1..Len(cs) |-> cs[k].arg]) = ListedArns(j, "SMB")

\* The report entry e is the entry of gateway j.
EntryIs(e, j) ==
    /\ e.GatewayID = GwId(j)
    /\ [k \in 1..Len(e.Shares) |-> <<e.Shares[k].Type, e.Shares[k].ShareID>>]
           = ExpectedShares(j)

\* No remote failure reaches the caller, and the run gets to the file write:
\* only the open of the output file raises, after the last gateway.
ReachesWrite ==
    /\ raised # "none" => pc = "done" /\ raised = "OSError"
    /\ pc = "done" =>
          /\ ei > Len(detailed_list)
          /\ Len(detailed_list) = Len(Described)
          /\ raised = "none" => file = <<share_report>>

\* Failures drop their own unit and nothing else, up to the report's keys.
DropsOwnUnit ==
    /\ SomeFailed(CallsOf("list_gateways")) => DOMAIN share_report = {}
    /\ \A n \in DOMAIN share_report :
          \E j \in 1..Len(Described) : Survives(j) /\ GwName(j) = n
    /\ \A j \in 1..Len(Described) :
          /\ ~Survives(j) => CallsFor("describe_nfs_file_shares", j) = <<>>
                          /\ CallsFor("describe_smb_file_shares", j) = <<>>
          /\ Survives(j) => BatchesCover(j)

\* C7: whatever remote calls fail, the export reaches the file
\* write and every gateway that was described, is shareable and had its
\* shares listed has its own entry in the report, holding the records of
\* its successful batches; nothing else is in the report.
C7_EveryOtherGatewayWritten ==
    pc = "done" =>
        /\ ReachesWrite
        /\ DropsOwnUnit
        /\ \A j \in 1..Len(Described) :
              Survives(j) => /\ GwName(j) \in DOMAIN share_report
                             /\ EntryIs(share_report[GwName(j)], j)

\* What the code does instead: gateways with the same Name share one key of
\* the report, which holds the entry of the last of them that was not
\* dropped.
ReportHoldsLastOfEachName ==
    pc = "done" =>
        /\ ReachesWrite
        /\ DropsOwnUnit
        /\ \A j \in 1..Len(Described) :
              (/\ Survives(j)
               /\ \A l \in (j + 1)..Len(Described) :
                     ~(Survives(l) /\ GwName(l) = GwName(j)))
              => /\ GwName(j) \in DOMAIN share_report
                 /\ EntryIs(share_report[GwName(j)], j)

\* Two gateways of the same Name, both kept; a batch of the second failed.
SameNameWitness ==
    /\ pc = "done" /\ raised = "none"
    /\ Len(Described) = 2
    /\ Survives(1) /\ Survives(2)
    /\ GwName(1) = GwName(2) /\ GwId(1) # GwId(2)
    /\ SomeFailed(CallsFor("describe_smb_file_shares", 2))
    /\ file = <<share_report>>
    /\ share_report[GwName(2)].GatewayID = GwId(2)

\* C8: in every reachable state, share-listing and share-describe calls
\* were issued only for gateways whose Type is FILE_S3 or FILE_FSX_SMB, and
\* each key of the report is the Name of a gateway described in this run
\* whose Type is one of the two, with that gateway's id in the entry.
C8_OnlyShareableGateways ==
    entry = "export_shares_to_json" =>
        /\ \A k \in 1..Len(calls) :
              calls[k].op \in {"list_file_shares", "describe_nfs_file_shares",
                               "describe_smb_file_shares"}
              => /\ calls[k].gw \in 1..Len(Described)
                 /\ IsShareable(calls[k].gw)
        /\ \A n \in DOMAIN share_report :
              \E j \in 1..Len(Described) :
                  /\ GwName(j) = n
                  /\ IsShareable(j)
                  /\ share_report[n].GatewayID = GwId(j)

\* A cached gateway and a file gateway were described under the same Name:
\* the one entry of the report is the file gateway's, and no share call was
\* issued for the cached one.
C8_Witness ==
    /\ pc = "done"
    /\ Len(Described) = 2
    /\ GwType(1) = "CACHED" /\ GwType(2) = "FILE_S3"
    /\ GwName(1) = GwName(2)
    /\ DOMAIN share_report = {GwName(2)}
    /\ share_report[GwName(2)].GatewayID = GwId(2)
    /\ CallsFor("list_file_shares", 1) = <<>>
    /\ CallsFor("list_file_shares", 2) # <<>>

\* The log records other than INFO.
Problems == SelectSeq(log, LAMBDA r : r.level # "INFO")

\* The remote calls that failed.
FailedCalls == SelectSeq(calls, LAMBDA c : ~c.ok)

\* C9: when the output file cannot be opened, the failure is recorded in
\* the log (a record beyond those of the failed remote calls) and the
\* message 'Detailed share report saved' is not logged.
C9_OpenFailureLogged ==
    raised = "OSError" =>
        /\ Len(Problems) > Len(FailedCalls)
        /\ \A k \in 1..Len(log) : log[k].msg # "Detailed share report saved"

\* The gateway listing yielded no gateway: it failed, or its pages were empty.
NoGateways ==
    LET cs == CallsOf("list_gateways")
    IN  \/ SomeFailed(cs)
        \/ \A k \in 1..Len(cs) : Items(cs[k].resp, "Gateways") = <<>>

\* C10: when the gateway listing yields no gateway, by failing or by being
\* empty, the export issues no describe and no share-listing call and, the
\* file being opened, writes the empty mapping to it.
C10_NoGatewaysWritesEmptyMapping ==
    (entry = "export_shares_to_json" /\ pc # "list_gateways" /\ NoGateways) =>
        /\ \A k \in 1..Len(calls) : calls[k].op = "list_gateways"
        /\ DOMAIN share_report = {}
        /\ (pc = "done" /\ raised = "none") =>
              Len(file) = 1 /\ DOMAIN file[1] = {}

\* The listing failed on its second page, and the file holds the empty
\* mapping.
C10_Witness ==
    /\ pc = "done" /\ raised = "none"
    /\ Len(calls) = 2 /\ calls[1].ok /\ ~calls[2].ok
    /\ calls[1].resp # EmptyDict /\ Len(calls[1].resp.Gateways) = 2
    /\ Len(file) = 1 /\ DOMAIN file[1] = {}

====
